---- MODULE Spec2Model ----
(***************************************************************************)
(* Model of the trade outcome simulator of server/trade_simulator.py.     *)
(*                                                                         *)
(* simulate_trade reads m1_candles once, front to back, in two loops     *)
(* (entry search, then position management).  One action models one       *)
(* iteration of a loop together with everything the code runs after a     *)
(* return or a break of that iteration.  The candle an iteration reads is *)
(* drawn when the loop reaches it and kept in `candle`; the list ends      *)
(* where an Exhausted action fires, so m1_candles ranges over the candle  *)
(* lists of every length; no_candles is `not m1_candles`, the empty list. *)
(*                                                                         *)
(* Units.  Prices are whole multiples of pip_size.  The zone midpoint     *)
(* (entry_min + entry_max) / 2 may fall on a half, so every value derived *)
(* from it is held as an exact integer multiple:                          *)
(*   entry_price, current_sl                         2 x the price        *)
(*   tp1_pips, tp2_pips, max_*_pips, adverse, ...    2 x the pips         *)
(*   pnl_pips                                        PnlScale x the pips  *)
(* Timestamps "YYYY-MM-DD HH:MM" of one trading date are held as the      *)
(* minute of the day; the empty string and None are NoTime.               *)
(***************************************************************************)
EXTENDS Integers, Sequences, FiniteSets, TLC

\* ------------------------------------------------------------------ bounds
MaxPrice == 4

Prices == 0..MaxPrice
\* 18:00, 18:30 (local hour 19), 19:00 (local hour 20, the default cutoff)
Times == {1080, 1110, 1140}
NoTime == -1
SlPipsSet == {3}
ClosePcts == {25, 50}
MaxSetups == 3
Dates == {1, 2}

\* ------------------------------------------------------- program constants
DEFAULT_KILL_ZONE_END_MEZ == 20
DefaultTimezoneOffset == 1
PctBase == 100
PnlScale == 2 * PctBase

VARIABLES
    bias, entry_min, entry_max, stop_loss, tp1, tp2, sl_pips, no_candles,
    search_start, kill_zone_end_hour, timezone_offset, tp1_close_pct,
    pc, candle, result,
    tp1_hit, tp2_hit, sl_hit, current_sl, max_adverse, max_favorable

\* run_backtest and test_setup: the database's content (has_bars), the caller's
\* list (no_setups, setup = the setup read last), the function's locals and
\* what it returns; fetches and sim_calls count the calls of get_candles and
\* simulate_trade.
VARIABLES
    has_bars, no_setups, bpc, setup, candle_cache, results, trade_rows,
    summary, ts_result, fetches, sim_calls

\* generate_report: the report returned last.
VARIABLES report

\* _get_mez_hour called on its own: its two arguments, its return value and
\* whether it has returned.
VARIABLES hour_time, hour_offset, hour_result, hpc

inputs == <<bias, entry_min, entry_max, stop_loss, tp1, tp2, sl_pips, no_candles,
            search_start, kill_zone_end_hour, timezone_offset, tp1_close_pct>>
locals == <<tp1_hit, tp2_hit, sl_hit, current_sl, max_adverse, max_favorable>>
sim == <<inputs, pc, candle, result, locals>>
batch == <<has_bars, no_setups, bpc, setup, candle_cache, results, trade_rows,
           summary, ts_result, fetches, sim_calls>>
hour_vars == <<hour_time, hour_offset, hour_result, hpc>>
vars == <<sim, batch, report, hour_vars>>

\* ------------------------------------------------------------------ helpers
Abs(x) == IF x < 0 THEN -x ELSE x
Max(a, b) == IF a >= b THEN a ELSE b

Candles ==
    {c \in [time : Times, high : Prices, low : Prices, close : Prices] :
        c.low <= c.close /\ c.close <= c.high}

NoCandle == [time |-> NoTime, high |-> 0, low |-> 0, close |-> 0]

\* Timestamp strings that strptime(time_str[:16], "%Y-%m-%d %H:%M") rejects:
\* one that sorts before every timestamp of the date ("02/01/2024 18:00")
\* and one that sorts after them ("2024-01-02T18:00").
BadTimeLow == -2
BadTimeHigh == 1440
BadTimes == {BadTimeLow, BadTimeHigh}

\* An unparseable timestamp read as the last hour of the day.
GetMezHourBadAsLast(time_str, tz_offset) ==
    IF time_str \in BadTimes THEN 23
    ELSE LET mez_hour == (time_str \div 60) + tz_offset
         IN  IF mez_hour >= 24 THEN mez_hour - 24 ELSE mez_hour

\* _get_mez_hour: hour of the timestamp plus the offset, 24 taken off once
\* when the sum reaches 24; 0 when the timestamp does not parse (ValueError).
_get_mez_hour(time_str, tz_offset) ==
    IF time_str \in BadTimes THEN 0
    ELSE LET hour == time_str \div 60
             mez_hour == hour + tz_offset
         IN  IF mez_hour >= 24 THEN mez_hour - 24 ELSE mez_hour

\* The two timestamps exchanged.
CalcDurationReversed(start, end) == Max(0, start - end)

\* _calc_duration: whole minutes from start to end, never below 0; 0 when
\* either timestamp does not parse (ValueError).
_calc_duration(start, end) ==
    IF start \in BadTimes \/ end \in BadTimes THEN 0
    ELSE Max(0, end - start)

\* SimulatedResult(bias=..., stop_loss=..., ...): the dataclass defaults.
SimulatedResult ==
    [ bias |-> bias, entry_price |-> 0, entry_time |-> NoTime,
      stop_loss |-> stop_loss, tp1 |-> tp1, tp2 |-> tp2, sl_pips |-> sl_pips,
      tp1_hit |-> FALSE, tp1_time |-> NoTime, tp1_pips |-> 0,
      tp2_hit |-> FALSE, tp2_time |-> NoTime, tp2_pips |-> 0,
      sl_hit |-> FALSE, sl_time |-> NoTime,
      outcome |-> "pending", pnl_pips |-> 0,
      max_adverse_pips |-> 0, max_favorable_pips |-> 0,
      duration_minutes |-> 0, expired |-> FALSE ]

\* ------------------------------------------------------------------ inputs
\* The trade definitions drawn: the stop on the losing side of the zone, both
\* targets on the winning side, TP2 beyond TP1.
WellFormed(b, emin, emax, sl, t1, t2) ==
    /\ emin <= emax
    /\ b = "long"  => (sl < emin /\ emax < t1 /\ t1 < t2)
    /\ b = "short" => (sl > emax /\ emin > t1 /\ t1 > t2)

\* ------------------------------------------------------------- batch data
\* float("inf"), the profit factor of a run without losses.
Inf == -1

\* The fields of a SimulatedResult that the batch runner and its summary
\* read (pnl_pips PnlScale x, sl_pips in pips).
BatchResult(o, pnl, slp, et) ==
    [outcome |-> o, pnl_pips |-> pnl, sl_pips |-> slp, entry_time |-> et]

\* SimulatedResult(bias=..., outcome="no_data"): every other field at its
\* default.
NoDataResult == BatchResult("no_data", 0, 0, NoTime)

NoResult == BatchResult("pending", 0, 0, NoTime)

\* Records simulate_trade returns on a date that has candles: one of each
\* kind, a second breakeven below zero, with the entry time of the trade and
\* the sl_pips of its setup (3, 2, or 0 for a setup that gives none).
ResultSamples ==
    { BatchResult("full_win", 400, 2, 1080),
      BatchResult("partial_win", 150, 3, 1110),
      BatchResult("loss", -600, 3, 1080),
      BatchResult("breakeven", 0, 3, 1110),
      BatchResult("breakeven", -150, 3, 1080),
      BatchResult("expired", -100, 0, 1110),
      BatchResult("no_entry", 0, 3, NoTime) }

\* A setup dict: its date, what the simulator makes of it on that date's
\* candles, and whether a required key (bias, entry_min, ...) is missing.
Setups ==
    [date : Dates, malformed : {FALSE}, sim : ResultSamples]
        \cup [date : Dates, malformed : {TRUE}, sim : {NoResult}]

NoSetup == [date |-> 0, malformed |-> FALSE, sim |-> NoResult]

\* ------------------------------------------------------------ run summary
\* round(x, ndigits) on n / d: the nearest integer, a tie going to the even
\* one.
RoundDiv(n, d) ==
    LET q == n \div d
        r == n % d
    IN  IF 2 * r < d THEN q
        ELSE IF 2 * r > d THEN q + 1
        ELSE IF q % 2 = 0 THEN q ELSE q + 1

\* round(pips, 1), in tenths of a pip.
Round1(pips) == RoundDiv(pips * 10, PnlScale)

\* sum(...) over a list.
SumSeq(f) ==
    LET s[k \in 0..Len(f)] == IF k = 0 THEN 0 ELSE s[k - 1] + f[k]
    IN  s[Len(f)]

Pnls(rs) == [k \in 1..Len(rs) |-> rs[k].pnl_pips]

\* Every result taken as traded.
TradedAll(rs) == rs

\* Line 373: the results that traded.
Traded(rs) ==
    SelectSeq(rs, LAMBDA r : r.outcome \notin {"no_data", "no_entry"})

\* Lines 378-384: results counted by outcome.
CountOutcomes(rs, kinds) == Len(SelectSeq(rs, LAMBDA r : r.outcome \in kinds))

\* Partial wins not counted as wins.
WinCountFullOnly(rs) == CountOutcomes(rs, {"full_win"})

\* Line 387: full and partial wins count as wins.
win_count(rs) == CountOutcomes(rs, {"full_win"}) + CountOutcomes(rs, {"partial_win"})

\* Line 388: win_rate in percent as the fraction <<numerator, denominator>>.
win_rate(rs) ==
    LET total_trades == Len(Traded(rs))
    IN  IF total_trades > 0 THEN <<win_count(rs) * 100, total_trades>>
        ELSE <<0, 1>>

\* Lines 391-393 (PnlScale x).
total_pnl(rs) == SumSeq(Pnls(Traded(rs)))

gross_profit(rs) ==
    SumSeq(Pnls(SelectSeq(Traded(rs), LAMBDA r : r.pnl_pips > 0)))

gross_loss(rs) ==
    Abs(SumSeq(Pnls(SelectSeq(Traded(rs), LAMBDA r : r.pnl_pips < 0))))

\* Zero in place of float("inf").
ProfitFactorNoInf(rs) ==
    IF gross_loss(rs) > 0 THEN RoundDiv(gross_profit(rs) * 100, gross_loss(rs))
    ELSE 0

\* Lines 394 and 432: round(profit_factor, 2) in hundredths, Inf for
\* float("inf").
profit_factor(rs) ==
    IF gross_loss(rs) > 0 THEN RoundDiv(gross_profit(rs) * 100, gross_loss(rs))
    ELSE IF gross_profit(rs) > 0 THEN Inf
    ELSE 0

\* product(...) over a list.
ProdSeq(f) ==
    LET p[k \in 0..Len(f)] == IF k = 0 THEN 1 ELSE p[k - 1] * f[k]
    IN  p[Len(f)]

\* Outcomes without pnl counted in.
InRrListAnyPnl(r) == r.sl_pips > 0

\* Line 411: the results that enter rr_list.
InRrList(r) == r.sl_pips > 0 /\ r.pnl_pips # 0

\* Lines 409-413 and 437: round(avg_rr, 2) in hundredths.  The quotients
\* pnl_pips / sl_pips are added over the common denominator
\* PnlScale * (product of the sl_pips).
avg_rr(rs) ==
    LET rr_list == SelectSeq(Traded(rs), InRrList)
        n == Len(rr_list)
        common == ProdSeq([k \in 1..n |-> rr_list[k].sl_pips])
        total == SumSeq([k \in 1..n |->
                            rr_list[k].pnl_pips * (common \div rr_list[k].sl_pips)])
    IN  IF n > 0 THEN RoundDiv(total * 100, PnlScale * common * n) ELSE 0

\* The peak following the running total down.
NewPeakLatest(peak_pnl, running_pnl) == running_pnl

\* Lines 402-403: the peak rises with the running total.
NewPeak(peak_pnl, running_pnl) ==
    IF running_pnl > peak_pnl THEN running_pnl ELSE peak_pnl

\* Lines 396-406: the drawdown loop over the traded results in list order
\* (PnlScale x).
max_dd(rs) ==
    LET traded == Traded(rs)
        st[k \in 0..Len(traded)] ==
            IF k = 0
            THEN [running_pnl |-> 0, peak_pnl |-> 0, max_dd |-> 0]
            ELSE LET running_pnl == st[k - 1].running_pnl + traded[k].pnl_pips
                     peak_pnl == NewPeak(st[k - 1].peak_pnl, running_pnl)
                     dd == peak_pnl - running_pnl
                 IN  [running_pnl |-> running_pnl,
                      peak_pnl |-> peak_pnl,
                      max_dd |-> IF dd > st[k - 1].max_dd THEN dd
                                 ELSE st[k - 1].max_dd]
    IN  st[Len(traded)].max_dd

\* Lines 370-440: the summary dict; win_rate and the pip values in tenths,
\* profit_factor and avg_rr_achieved in hundredths.  avg_duration_minutes and
\* max_adverse_excursion read fields BatchResult does not carry.
_compute_run_summary(rs) ==
    [ total_setups |-> Len(rs),
      total_trades |-> Len(Traded(rs)),
      no_entry |-> CountOutcomes(rs, {"no_entry", "no_data"}),
      wins |-> CountOutcomes(rs, {"full_win"}),
      partial_wins |-> CountOutcomes(rs, {"partial_win"}),
      losses |-> CountOutcomes(rs, {"loss"}),
      breakevens |-> CountOutcomes(rs, {"breakeven"}),
      expired |-> CountOutcomes(rs, {"expired"}),
      win_rate |-> RoundDiv(win_rate(rs)[1] * 10, win_rate(rs)[2]),
      profit_factor |-> profit_factor(rs),
      total_pnl_pips |-> Round1(total_pnl(rs)),
      gross_profit_pips |-> Round1(gross_profit(rs)),
      gross_loss_pips |-> Round1(gross_loss(rs)),
      max_drawdown_pips |-> Round1(max_dd(rs)),
      avg_rr_achieved |-> avg_rr(rs) ]

NoSummary == _compute_run_summary(<<>>)

\* ------------------------------------------------------------------ report
\* The infinity sign, the string a cohort reports for an infinite profit
\* factor.
InfText == -2

Clock == {1, 2}

\* The trade list taken whole.
EnteredAll(trades) == trades

\* Line 39: the trades that entered the market.
Entered(trades) ==
    SelectSeq(trades, LAMBDA t : t.outcome \notin {"no_data", "no_entry"})

\* Lines 71-91: the overview copies the run record.  avg_pnl_per_trade, the
\* float quotient of the rounded total by max(total_trades, 1) rounded once
\* more, and avg_duration_minutes are not carried.
_build_overview(run) ==
    [ total_setups |-> run.total_setups,
      total_trades |-> run.total_trades,
      no_entry |-> run.no_entry,
      wins |-> run.wins,
      partial_wins |-> run.partial_wins,
      losses |-> run.losses,
      breakevens |-> run.breakevens,
      expired |-> run.expired,
      win_rate |-> run.win_rate,
      profit_factor |-> run.profit_factor,
      total_pnl_pips |-> run.total_pnl_pips,
      max_drawdown_pips |-> run.max_drawdown_pips,
      avg_rr_achieved |-> run.avg_rr_achieved ]

\* Lines 99-103: the stats of an empty group.
ZeroStats ==
    [ count |-> 0, wins |-> 0, losses |-> 0, win_rate |-> 0, total_pnl |-> 0,
      avg_pnl |-> 0, profit_factor |-> 0 ]

\* Breakevens and expiries counted as wins.
GroupWinsNotLoss(trades) == Len(SelectSeq(trades, LAMBDA t : t.outcome # "loss"))

\* Line 106.
GroupWins(trades) ==
    Len(SelectSeq(trades, LAMBDA t : t.outcome \in {"full_win", "partial_win"}))

\* Lines 97-125: win_rate, total_pnl and avg_pnl in tenths, profit_factor in
\* hundredths or InfText.
_compute_group_stats(trades) ==
    IF trades = <<>> THEN ZeroStats
    ELSE LET count == Len(trades)
             wins == GroupWins(trades)
             grp_total_pnl == SumSeq(Pnls(trades))
             grp_gross_profit == SumSeq(Pnls(SelectSeq(trades, LAMBDA t : t.pnl_pips > 0)))
             grp_gross_loss == Abs(SumSeq(Pnls(SelectSeq(trades, LAMBDA t : t.pnl_pips < 0))))
         IN  [ count |-> count,
               wins |-> wins,
               losses |-> Len(SelectSeq(trades, LAMBDA t : t.outcome = "loss")),
               win_rate |-> RoundDiv(wins * 100 * 10, count),
               total_pnl |-> Round1(grp_total_pnl),
               avg_pnl |-> RoundDiv(grp_total_pnl * 10, PnlScale * count),
               profit_factor |-> IF grp_gross_loss > 0
                                 THEN RoundDiv(grp_gross_profit * 100, grp_gross_loss)
                                 ELSE IF grp_gross_profit > 0 THEN InfText
                                 ELSE 0 ]

\* Lines 144-196: the trades grouped by their keys (keys[k] the key of
\* trades[k]), one cohort per key that occurs.
Breakdown(trades, keys) ==
    [ c \in {keys[k] : k \in DOMAIN trades} |->
        _compute_group_stats(
            LET kept[k \in 0..Len(trades)] ==
                    IF k = 0 THEN <<>>
                    ELSE IF keys[k] = c THEN Append(kept[k - 1], trades[k])
                    ELSE kept[k - 1]
            IN  kept[Len(trades)]) ]

\* Line 176; the dates 1 and 2 of the model are the Monday and the Tuesday of
\* one week.
day_names ==
    <<"Monday", "Tuesday", "Wednesday", "Thursday", "Friday", "Saturday", "Sunday">>

_breakdown_by_day(trades) ==
    Breakdown(trades, [k \in DOMAIN trades |-> day_names[trades[k].trade_date]])

\* Every setup of the model is long and carries neither a checklist score nor
\* a confidence tag.
_breakdown_by_bias(trades) == Breakdown(trades, [k \in DOMAIN trades |-> "LONG"])

_breakdown_by_confidence(trades) ==
    Breakdown(trades, [k \in DOMAIN trades |-> "UNKNOWN"])

_breakdown_by_checklist(trades) ==
    Breakdown(trades, [k \in DOMAIN trades |-> "Unknown"])

\* The running total restarted at every trade.
CumulativeRestarted(cumulative, pnl_pips) == pnl_pips

\* Line 208.
Cumulative(cumulative, pnl_pips) == cumulative + pnl_pips

\* Lines 202-217: one point per trade, pnl and running total rounded to one
\* decimal (tenths).
_build_equity_curve(trades) ==
    LET st[k \in 0..Len(trades)] ==
            IF k = 0 THEN [curve |-> <<>>, cumulative |-> 0]
            ELSE LET t == trades[k]
                     cumulative == Cumulative(st[k - 1].cumulative, t.pnl_pips)
                 IN  [ curve |-> Append(st[k - 1].curve,
                                        [ date |-> t.trade_date,
                                          time |-> t.entry_time,
                                          pnl |-> Round1(t.pnl_pips),
                                          cumulative |-> Round1(cumulative),
                                          outcome |-> t.outcome ]),
                       cumulative |-> cumulative ]
    IN  st[Len(trades)].curve

\* None.
NoTrade == [date |-> 0, outcome |-> "", pnl_pips |-> 0]

\* Lines 228-236 and 244-252: the fields reported of a notable trade.
NotableTrade(t) ==
    [date |-> t.trade_date, outcome |-> t.outcome, pnl_pips |-> t.pnl_pips]

\* A later trade replacing an equal earlier one.
ReplacesOnTie(new_key, old_key) == new_key >= old_key

\* max() and min() keep the first of equal elements: a later element
\* replaces the held one only when strictly better.
Replaces(new_key, old_key) == new_key > old_key

\* Lines 223-236.
_find_best_trade(trades) ==
    LET best[k \in 1..Len(trades)] ==
            IF k = 1 THEN trades[1]
            ELSE IF Replaces(trades[k].pnl_pips, best[k - 1].pnl_pips)
                 THEN trades[k] ELSE best[k - 1]
    IN  IF trades = <<>> THEN NoTrade ELSE NotableTrade(best[Len(trades)])

\* Lines 239-252.
_find_worst_trade(trades) ==
    LET worst[k \in 1..Len(trades)] ==
            IF k = 1 THEN trades[1]
            ELSE IF Replaces(-trades[k].pnl_pips, -worst[k - 1].pnl_pips)
                 THEN trades[k] ELSE worst[k - 1]
    IN  IF trades = <<>> THEN NoTrade ELSE NotableTrade(worst[Len(trades)])

\* A breakeven or expiry ending the current streak.
StreakAfterOtherReset(st) == [st EXCEPT !.current = 0, !.current_type = ""]

\* Lines 283-285: any other outcome passes.
StreakAfterOther(st) == st

\* Lines 258-292.
_compute_streaks(trades) ==
    LET st[k \in 0..Len(trades)] ==
            IF k = 0
            THEN [max_win |-> 0, max_loss |-> 0, current |-> 0, current_type |-> ""]
            ELSE LET p == st[k - 1]
                     o == trades[k].outcome
                 IN  IF o \in {"full_win", "partial_win"}
                     THEN LET current == IF p.current_type = "win"
                                         THEN p.current + 1 ELSE 1
                          IN  [p EXCEPT !.current = current,
                                        !.current_type = "win",
                                        !.max_win = Max(p.max_win, current)]
                     ELSE IF o = "loss"
                     THEN LET current == IF p.current_type = "loss"
                                         THEN p.current + 1 ELSE 1
                          IN  [p EXCEPT !.current = current,
                                        !.current_type = "loss",
                                        !.max_loss = Max(p.max_loss, current)]
                     ELSE StreakAfterOther(p)
        last == st[Len(trades)]
    IN  [ max_win_streak |-> last.max_win,
          max_loss_streak |-> last.max_loss,
          current_streak |-> last.current,
          current_type |-> last.current_type ]

\* Lines 28-68: the report of a run record and its trade rows, generated at
\* time now.  run_id, symbol, period and mode are copied from the run record
\* and not carried here.
generate_report(run, trades, now) ==
    LET entered == Entered(trades)
    IN  [ generated_at |-> now,
          overview |-> _build_overview(run),
          by_checklist_score |-> _breakdown_by_checklist(entered),
          by_confidence |-> _breakdown_by_confidence(entered),
          by_bias |-> _breakdown_by_bias(entered),
          by_day_of_week |-> _breakdown_by_day(entered),
          equity_curve |-> _build_equity_curve(entered),
          best_trade |-> _find_best_trade(entered),
          worst_trade |-> _find_worst_trade(entered),
          streaks |-> _compute_streaks(entered) ]

NoReport == generate_report(NoSummary, <<>>, 0)

\* generate_report not called.
ReportIdle == report = NoReport

\* _get_mez_hour not called on its own.
HourIdle ==
    /\ hour_time = 0
    /\ hour_offset = 0
    /\ hour_result = 0
    /\ hpc = "off"

\* Neither run_backtest nor test_setup called.
BatchIdle ==
    /\ has_bars = [d \in Dates |-> TRUE]
    /\ no_setups = TRUE
    /\ bpc = "off"
    /\ setup = NoSetup
    /\ candle_cache = [d \in Dates |-> "absent"]
    /\ results = <<>>
    /\ trade_rows = <<>>
    /\ summary = NoSummary
    /\ ts_result = NoResult
    /\ fetches = [d \in Dates |-> 0]
    /\ sim_calls = 0

Init ==
    /\ BatchIdle
    /\ ReportIdle
    /\ HourIdle
    /\ bias \in {"long", "short"}
    /\ entry_min \in Prices
    /\ entry_max \in Prices
    /\ stop_loss \in Prices
    /\ tp1 \in Prices
    /\ tp2 \in Prices
    /\ WellFormed(bias, entry_min, entry_max, stop_loss, tp1, tp2)
    /\ sl_pips \in SlPipsSet
    /\ no_candles \in BOOLEAN
    /\ search_start \in {NoTime, 1110}
    /\ kill_zone_end_hour = DEFAULT_KILL_ZONE_END_MEZ
    /\ timezone_offset = DefaultTimezoneOffset
    /\ tp1_close_pct \in ClosePcts
    /\ pc = "start"
    /\ candle = NoCandle
    /\ result = SimulatedResult
    /\ tp1_hit = FALSE
    /\ tp2_hit = FALSE
    /\ sl_hit = FALSE
    /\ current_sl = 0
    /\ max_adverse = 0
    /\ max_favorable = 0

\* ------------------------------------------------------------------ actions
\* Line 118: the zone midpoint (2 x).
entry_price == entry_min + entry_max

\* The empty list not tested.
StartNoEmptyCheck ==
    /\ pc = "start"
    /\ result' = [result EXCEPT !.entry_price = entry_price]
    /\ pc' = "search"
    /\ UNCHANGED <<inputs, candle, locals, batch, report, hour_vars>>

\* Lines 103-121: build the result; an empty candle list returns no_data,
\* otherwise the midpoint is recorded and the entry search begins.
Start ==
    /\ pc = "start"
    /\ IF no_candles
       THEN /\ result' = [result EXCEPT !.outcome = "no_data"]
            /\ pc' = "done"
       ELSE /\ result' = [result EXCEPT !.entry_price = entry_price]
            /\ pc' = "search"
    /\ UNCHANGED <<inputs, candle, locals, batch, report, hour_vars>>

\* The candles of a date in any order.
NextTimesUnordered == Times

\* get_candles returns the candles of a date ORDER BY time ASC: the next
\* candle of the list is not earlier than the one before it.
NextTimes == {t \in Times : t >= candle.time}

\* A candle dict {time, open, high, low, close, volume}; open and volume are
\* never read by the simulator.
Candle(t, hi, lo, cl) == [time |-> t, high |-> hi, low |-> lo, close |-> cl]

\* Line 125: the candle lies before a given search_start.
BeforeSearchStart(c) == search_start # NoTime /\ c.time < search_start

\* The cutoff hour itself still inside the session.
KillZoneEndedStrict(c) ==
    _get_mez_hour(c.time, timezone_offset) > kill_zone_end_hour

\* Lines 129-130 and 167-168: the candle's local hour has reached the cutoff.
KillZoneEnded(c) ==
    _get_mez_hour(c.time, timezone_offset) >= kill_zone_end_hour

\* The far edge of the zone required.
EntryTouchedFarEdge(c) ==
    IF bias = "long" THEN c.low <= entry_min ELSE c.high >= entry_max

\* Lines 136-149: the candle touches the entry zone.
EntryTouched(c) ==
    IF bias = "long" THEN c.low <= entry_max ELSE c.high >= entry_min

\* The entry candle's own range taken into the excursion maxima.
SearchStepEntryBarTracked(c) ==
    /\ pc = "search"
    /\ ~no_candles
    /\ candle' = c
    /\ IF BeforeSearchStart(c)
       THEN UNCHANGED <<pc, result, locals>>
       ELSE IF KillZoneEnded(c)
       THEN /\ result' = [result EXCEPT !.outcome = "expired", !.expired = TRUE]
            /\ pc' = "done"
            /\ UNCHANGED locals
       ELSE IF EntryTouched(c)
       THEN /\ result' = [result EXCEPT !.entry_time = c.time]
            /\ pc' = "manage"
            /\ tp1_hit' = FALSE
            /\ tp2_hit' = FALSE
            /\ sl_hit' = FALSE
            /\ current_sl' = 2 * stop_loss
            /\ max_adverse' = Max(0, 2 * (c.high - c.low))
            /\ max_favorable' = Max(0, 2 * (c.high - c.low))
       ELSE UNCHANGED <<pc, result, locals>>
    /\ UNCHANGED <<inputs, batch, report, hour_vars>>

\* Lines 123-149 (one iteration) with lines 156-163 after the break.
SearchStep(c) ==
    /\ pc = "search"
    /\ ~no_candles
    /\ candle' = c
    /\ IF BeforeSearchStart(c)
       THEN UNCHANGED <<pc, result, locals>>
       ELSE IF KillZoneEnded(c)
       THEN /\ result' = [result EXCEPT !.outcome = "expired", !.expired = TRUE]
            /\ pc' = "done"
            /\ UNCHANGED locals
       ELSE IF EntryTouched(c)
       THEN /\ result' = [result EXCEPT !.entry_time = c.time]
            /\ pc' = "manage"
            /\ tp1_hit' = FALSE
            /\ tp2_hit' = FALSE
            /\ sl_hit' = FALSE
            /\ current_sl' = 2 * stop_loss
            /\ max_adverse' = 0
            /\ max_favorable' = 0
       ELSE UNCHANGED <<pc, result, locals>>
    /\ UNCHANGED <<inputs, batch, report, hour_vars>>

\* The expired flag left unset.
SearchExhaustedNotExpired ==
    /\ pc = "search"
    /\ no_candles \/ candle # NoCandle
    /\ result' = [result EXCEPT !.outcome = "no_entry"]
    /\ pc' = "done"
    /\ UNCHANGED <<inputs, candle, locals, batch, report, hour_vars>>

\* Lines 151-154: the list ended and no candle entered (a list that is not
\* empty ends after its first candle at the earliest).
SearchExhausted ==
    /\ pc = "search"
    /\ no_candles \/ candle # NoCandle
    /\ result' = [result EXCEPT !.outcome = "no_entry", !.expired = TRUE]
    /\ pc' = "done"
    /\ UNCHANGED <<inputs, candle, locals, batch, report, hour_vars>>

\* Lines 171-174: pips from the entry price to the candle's close, signed
\* in the trade's direction (2 x).
remaining_pips(c) ==
    IF bias = "long" THEN 2 * c.close - entry_price
    ELSE entry_price - 2 * c.close

\* Lines 191-196: excursions of the candle against and with the trade (2 x).
adverse(c) ==
    IF bias = "long" THEN entry_price - 2 * c.low
    ELSE 2 * c.high - entry_price

\* The favourable excursion measured at the close.
favorableAtClose(c) ==
    IF bias = "long" THEN 2 * c.close - entry_price
    ELSE entry_price - 2 * c.close

favorable(c) ==
    IF bias = "long" THEN 2 * c.high - entry_price
    ELSE entry_price - 2 * c.low

\* Lines 178, 210, 227, 243, 251, 263, 276: abs(tp1 - entry_price) / pip_size (2 x).
Tp1Pips == Abs(2 * tp1 - entry_price)

\* Lines 260, 264, 274, 277: abs(tp2 - entry_price) / pip_size (2 x).
Tp2Pips == Abs(2 * tp2 - entry_price)

\* Lines 239 and 247: the candle reaches TP1.
Tp1Touched(c) ==
    \/ bias = "long" /\ c.high >= tp1
    \/ bias = "short" /\ c.low <= tp1

\* Lines 256 and 270: the candle reaches TP2.
Tp2Touched(c) ==
    \/ bias = "long" /\ c.high >= tp2
    \/ bias = "short" /\ c.low <= tp2

\* The stop tested after the targets instead of before them.
StopTouchedAfterTargets(c, sl) ==
    /\ \/ bias = "long" /\ 2 * c.low <= sl
       \/ bias = "short" /\ 2 * c.high >= sl
    /\ ~Tp1Touched(c)

\* Lines 203 and 221: the candle reaches the working stop sl.
StopTouched(c, sl) ==
    \/ bias = "long" /\ 2 * c.low <= sl
    \/ bias = "short" /\ 2 * c.high >= sl

\* The runner's part left out.
KillZonePnlTp1Only(c) == Tp1Pips * tp1_close_pct

\* Line 180: TP1 banked, the runner closed at the market (PnlScale x).
KillZonePnl(c) ==
    Tp1Pips * tp1_close_pct + remaining_pips(c) * (PctBase - tp1_close_pct)

\* The TP1 distance credited in full.
StopAfterTp1PnlWhole == Tp1Pips * PctBase

\* Lines 211 and 228: only the TP1 part, the runner at breakeven (PnlScale x).
StopAfterTp1Pnl == Tp1Pips * tp1_close_pct

\* The loss measured from the entry price to the stop level.
StopLossPnlMeasured == -(Abs(2 * stop_loss - entry_price) * PctBase)

\* Lines 215 and 231: the full stop (PnlScale x).
StopLossPnl == -(sl_pips * PnlScale)

\* The two close fractions exchanged.
FullWinPnlSwapped ==
    Tp2Pips * tp1_close_pct + Tp1Pips * (PctBase - tp1_close_pct)

\* Lines 265 and 278: TP1 part plus TP2 runner (PnlScale x).
FullWinPnl ==
    Tp1Pips * tp1_close_pct + Tp2Pips * (PctBase - tp1_close_pct)

\* The pending result returned as it is.
FinishLeavesPending(r, ma, mf, last) ==
    [r EXCEPT !.max_adverse_pips = ma, !.max_favorable_pips = mf]

\* Lines 283-293: copy the excursion maxima; a result still pending is
\* expired, its duration running to the last candle of the list.
Finish(r, ma, mf, last) ==
    LET r1 == [r EXCEPT !.max_adverse_pips = ma, !.max_favorable_pips = mf]
    IN  IF r1.outcome = "pending"
        THEN [r1 EXCEPT !.outcome = "expired",
                        !.expired = TRUE,
                        !.duration_minutes = _calc_duration(r.entry_time, last)]
        ELSE r1

\* The working stop never moved.
NewStopKept(c) == current_sl

\* Lines 245 and 252: reaching TP1 moves the working stop to the entry price.
NewStop(c) ==
    IF ~tp1_hit /\ Tp1Touched(c) THEN entry_price ELSE current_sl

\* Lines 168-188: the cutoff closes the position at the candle's close.
KillZoneClose(c) ==
    LET r1 == IF tp1_hit
              THEN [result EXCEPT
                      !.tp1_hit = TRUE,
                      !.pnl_pips = KillZonePnl(c),
                      !.outcome = IF KillZonePnl(c) > 0 THEN "partial_win"
                                  ELSE "breakeven"]
              ELSE [result EXCEPT
                      !.pnl_pips = remaining_pips(c) * PctBase,
                      !.outcome = "expired"]
    IN  [r1 EXCEPT !.expired = TRUE,
                   !.duration_minutes = _calc_duration(result.entry_time, c.time)]

\* The stop marking the result expired as well.
StopCloseExpired(c) ==
    [result EXCEPT
        !.sl_hit = TRUE,
        !.sl_time = c.time,
        !.expired = TRUE,
        !.pnl_pips = IF tp1_hit THEN StopAfterTp1Pnl ELSE StopLossPnl,
        !.outcome = IF tp1_hit THEN "partial_win" ELSE "loss",
        !.duration_minutes = _calc_duration(result.entry_time, c.time)]

\* Lines 202-235: the stop closes the position.
StopClose(c) ==
    [result EXCEPT
        !.sl_hit = TRUE,
        !.sl_time = c.time,
        !.pnl_pips = IF tp1_hit THEN StopAfterTp1Pnl ELSE StopLossPnl,
        !.outcome = IF tp1_hit THEN "partial_win" ELSE "loss",
        !.duration_minutes = _calc_duration(result.entry_time, c.time)]

\* TP1 never written to the result.
Tp1RecordSkipped(c) == result

\* Lines 238-252: TP1 is recorded the first time it is reached.
Tp1Record(c) ==
    IF ~tp1_hit /\ Tp1Touched(c)
    THEN [result EXCEPT !.tp1_hit = TRUE, !.tp1_time = c.time,
                        !.tp1_pips = Tp1Pips]
    ELSE result

\* Lines 255-281: TP2 closes the runner.
Tp2Close(r, c) ==
    [r EXCEPT
        !.tp2_hit = TRUE,
        !.tp2_time = c.time,
        !.tp2_pips = Tp2Pips,
        !.pnl_pips = FullWinPnl,
        !.outcome = "full_win",
        !.duration_minutes = _calc_duration(result.entry_time, c.time)]

\* Lines 165-281 (one iteration) with lines 283-293 after a break.
ManageStep(c) ==
    /\ pc = "manage"
    /\ candle' = c
    /\ IF KillZoneEnded(c)
       THEN /\ result' = Finish(KillZoneClose(c), max_adverse, max_favorable, c.time)
            /\ pc' = "done"
            /\ UNCHANGED locals
       ELSE LET ma == Max(max_adverse, adverse(c))
                mf == Max(max_favorable, favorable(c))
                hit1 == tp1_hit \/ Tp1Touched(c)
            IN  /\ max_adverse' = ma
                /\ max_favorable' = mf
                /\ IF ~sl_hit /\ StopTouched(c, current_sl)
                   THEN /\ sl_hit' = TRUE
                        /\ result' = Finish(StopClose(c), ma, mf, c.time)
                        /\ pc' = "done"
                        /\ UNCHANGED <<tp1_hit, tp2_hit, current_sl>>
                   ELSE /\ tp1_hit' = hit1
                        /\ current_sl' = NewStop(c)
                        /\ UNCHANGED sl_hit
                        /\ IF hit1 /\ ~tp2_hit /\ Tp2Touched(c)
                           THEN /\ tp2_hit' = TRUE
                                /\ result' = Finish(Tp2Close(Tp1Record(c), c), ma, mf, c.time)
                                /\ pc' = "done"
                           ELSE /\ result' = Tp1Record(c)
                                /\ pc' = "manage"
                                /\ UNCHANGED tp2_hit
    /\ UNCHANGED <<inputs, batch, report, hour_vars>>

\* Lines 283-293: the list ended with the position open.
ManageExhausted ==
    /\ pc = "manage"
    /\ result' = Finish(result, max_adverse, max_favorable, candle.time)
    /\ pc' = "done"
    /\ UNCHANGED <<inputs, candle, locals, batch, report, hour_vars>>

Next ==
    \/ Start
    \/ \E t \in NextTimes, lo \in Prices : \E hi \in lo..MaxPrice : \E cl \in lo..hi :
            SearchStep(Candle(t, hi, lo, cl))
    \/ SearchExhausted
    \/ \E t \in NextTimes, lo \in Prices : \E hi \in lo..MaxPrice : \E cl \in lo..hi :
            ManageStep(Candle(t, hi, lo, cl))
    \/ ManageExhausted

Spec == Init /\ [][Next]_vars

\* ------------------------------------------------------- the batch runner
\* The simulator's own variables at rest while the batch runner is observed.
SimIdle ==
    /\ bias = "long"
    /\ entry_min = 0
    /\ entry_max = 0
    /\ stop_loss = 0
    /\ tp1 = 0
    /\ tp2 = 0
    /\ sl_pips = 0
    /\ no_candles = TRUE
    /\ search_start = NoTime
    /\ kill_zone_end_hour = DEFAULT_KILL_ZONE_END_MEZ
    /\ timezone_offset = DefaultTimezoneOffset
    /\ tp1_close_pct = 50
    /\ pc = "start"
    /\ candle = NoCandle
    /\ result = SimulatedResult
    /\ tp1_hit = FALSE
    /\ tp2_hit = FALSE
    /\ sl_hit = FALSE
    /\ current_sl = 0
    /\ max_adverse = 0
    /\ max_favorable = 0

\* The state at a call of run_backtest or test_setup: any database content,
\* any setups list.
BatchInit ==
    /\ SimIdle
    /\ ReportIdle
    /\ HourIdle
    /\ has_bars \in [Dates -> BOOLEAN]
    /\ no_setups \in BOOLEAN
    /\ bpc = "idle"
    /\ setup = NoSetup
    /\ candle_cache = [d \in Dates |-> "absent"]
    /\ results = <<>>
    /\ trade_rows = <<>>
    /\ summary = NoSummary
    /\ ts_result = NoResult
    /\ fetches = [d \in Dates |-> 0]
    /\ sim_calls = 0

\* get_candles(symbol, "M1", start_time, end_time) for one date: the list
\* stored for it, empty or not.
get_candles(date) == IF has_bars[date] THEN "bars" ELSE "empty"

\* A date cached with an empty list loaded again.
NeedsFetchIfEmpty(date) == candle_cache[date] \in {"absent", "empty"}

\* Line 263: if date not in candle_cache.
NeedsFetch(date) == candle_cache[date] = "absent"

\* The empty list handed on to the simulator.
NoBarsNever(m1_candles) == FALSE

\* Lines 166 and 270: if not m1_candles.
NoBars(m1_candles) == m1_candles = "empty"

\* simulate_trade(..., m1_candles=...) as the batch runner sees it: no_data
\* on an empty list (lines 113-115), else the record of the setup.
simulate_trade(s, m1_candles) ==
    IF m1_candles = "empty" THEN NoDataResult ELSE s.sim

\* Lines 299-331: the row stored for a result.
TradeRow(date, res) ==
    [trade_date |-> date, entry_time |-> res.entry_time,
     outcome |-> res.outcome, pnl_pips |-> res.pnl_pips]

\* Lines 237-257: an empty setups list returns the error dict, otherwise the
\* cache and the two lists start empty.
RunStart ==
    /\ bpc = "idle"
    /\ bpc' = IF no_setups THEN "error" ELSE "loop"
    /\ UNCHANGED <<sim, report, hour_vars, has_bars, no_setups, setup, candle_cache, results,
                   trade_rows, summary, ts_result, fetches, sim_calls>>

\* Lines 259-332, one iteration: the date's candles come from the cache,
\* loaded on its first miss; without candles the result is the no_data
\* record, otherwise the simulator's; a missing key raises KeyError, which
\* nothing catches.
RunStep(s) ==
    LET date == s.date
        fetch == NeedsFetch(date)
        cache1 == IF fetch
                  THEN [candle_cache EXCEPT ![date] = get_candles(date)]
                  ELSE candle_cache
        m1_candles == cache1[date]
        res == IF NoBars(m1_candles) THEN NoDataResult
               ELSE simulate_trade(s, m1_candles)
    IN  /\ bpc = "loop"
        /\ Len(results) < MaxSetups
        /\ setup' = s
        /\ candle_cache' = cache1
        /\ fetches' = IF fetch THEN [fetches EXCEPT ![date] = @ + 1] ELSE fetches
        /\ IF s.malformed
           THEN /\ bpc' = "raised"
                /\ UNCHANGED <<results, trade_rows, sim_calls>>
           ELSE /\ bpc' = "loop"
                /\ sim_calls' = IF NoBars(m1_candles) THEN sim_calls
                                ELSE sim_calls + 1
                /\ results' = Append(results, res)
                /\ trade_rows' = Append(trade_rows, TradeRow(date, res))
        /\ UNCHANGED <<sim, report, hour_vars, has_bars, no_setups, summary, ts_result>>

\* Lines 334-364: the list ended; the summary is computed over the results
\* in list order and returned.
RunFinish ==
    /\ bpc = "loop"
    /\ setup # NoSetup
    /\ summary' = _compute_run_summary(results)
    /\ bpc' = "done"
    /\ UNCHANGED <<sim, report, hour_vars, has_bars, no_setups, setup, candle_cache, results,
                   trade_rows, ts_result, fetches, sim_calls>>

\* Lines 126-195: test_setup loads the date's candles and returns no_data
\* without them, the simulator's record with them.
TestSetup(s) ==
    LET m1_candles == get_candles(s.date)
    IN  /\ bpc = "idle"
        /\ ~s.malformed
        /\ setup' = s
        /\ fetches' = [fetches EXCEPT ![s.date] = @ + 1]
        /\ IF NoBars(m1_candles)
           THEN /\ ts_result' = NoDataResult
                /\ UNCHANGED sim_calls
           ELSE /\ ts_result' = simulate_trade(s, m1_candles)
                /\ sim_calls' = sim_calls + 1
        /\ bpc' = "tested"
        /\ UNCHANGED <<sim, report, hour_vars, has_bars, no_setups, candle_cache, results,
                       trade_rows, summary>>

\* Lines 525-532: the stored rows of the run ORDER BY trade_date, entry_time.
RowBefore(a, b) ==
    \/ a.trade_date < b.trade_date
    \/ a.trade_date = b.trade_date /\ a.entry_time <= b.entry_time

get_backtest_trades ==
    LET ins[k \in 0..Len(trade_rows)] ==
            IF k = 0 THEN <<>>
            ELSE LET row == trade_rows[k]
                     head == SelectSeq(ins[k - 1], LAMBDA x : RowBefore(x, row))
                     tail == SelectSeq(ins[k - 1], LAMBDA x : ~RowBefore(x, row))
                 IN  head \o <<row>> \o tail
    IN  ins[Len(trade_rows)]

BatchNext ==
    \/ RunStart
    \/ \E s \in Setups : RunStep(s)
    \/ RunFinish
    \/ \E s \in Setups : TestSetup(s)

SpecBatch == BatchInit /\ [][BatchNext]_vars

\* ---------------------------------------------------- the report generator
\* generate_report(run, trades) on the stored run record and its rows as
\* get_backtest_trades returns them; before any run, on the record of an
\* empty run and an empty list.  A report can be generated again at a later
\* time.
GenerateReport(now) ==
    /\ bpc \in {"idle", "done", "reported"}
    /\ report' = generate_report(summary, get_backtest_trades, now)
    /\ bpc' = "reported"
    /\ UNCHANGED <<sim, hour_vars, has_bars, no_setups, setup, candle_cache,
                   results, trade_rows, summary, ts_result, fetches, sim_calls>>

ReportNext ==
    \/ BatchNext
    \/ \E now \in Clock : GenerateReport(now)

SpecReport == BatchInit /\ [][ReportNext]_vars

\* ------------------------------------------- _get_mez_hour on its own
\* The bar hours and the offsets _get_mez_hour is called with.
Hours == 0..23
Offsets == -23..23

HourInit ==
    /\ SimIdle
    /\ BatchIdle
    /\ ReportIdle
    /\ hour_time \in {h * 60 : h \in Hours} \cup BadTimes
    /\ hour_offset \in Offsets
    /\ hour_result = 0
    /\ hpc = "call"

\* Lines 337-349.
GetMezHour ==
    /\ hpc = "call"
    /\ hour_result' = _get_mez_hour(hour_time, hour_offset)
    /\ hpc' = "done"
    /\ UNCHANGED <<sim, batch, report, hour_time, hour_offset>>

HourNext == GetMezHour

SpecHour == HourInit /\ [][HourNext]_vars

\* ------------------------------- the simulator on unparseable timestamps
\* One long trade definition (zone 1..2, stop 0, targets 3 and 4) under a
\* cutoff of hour 1 or of hour 20, read against candle lists in which any
\* timestamp may fail to parse.
BadTimeInit ==
    /\ BatchIdle
    /\ ReportIdle
    /\ HourIdle
    /\ bias = "long"
    /\ entry_min = 1
    /\ entry_max = 2
    /\ stop_loss = 0
    /\ tp1 = 3
    /\ tp2 = 4
    /\ sl_pips \in SlPipsSet
    /\ no_candles = FALSE
    /\ search_start \in {NoTime, 1110}
    /\ kill_zone_end_hour \in {1, DEFAULT_KILL_ZONE_END_MEZ}
    /\ timezone_offset = DefaultTimezoneOffset
    /\ tp1_close_pct = 50
    /\ pc = "start"
    /\ candle = NoCandle
    /\ result = SimulatedResult
    /\ tp1_hit = FALSE
    /\ tp2_hit = FALSE
    /\ sl_hit = FALSE
    /\ current_sl = 0
    /\ max_adverse = 0
    /\ max_favorable = 0

\* ORDER BY time ASC compares the strings: the next candle's timestamp is
\* not below the one before it, parseable or not.
NextTimesAny ==
    {t \in Times \cup BadTimes : candle = NoCandle \/ t >= candle.time}

BadTimeNext ==
    \/ Start
    \/ \E t \in NextTimesAny, lo \in Prices : \E hi \in lo..MaxPrice : \E cl \in lo..hi :
            SearchStep(Candle(t, hi, lo, cl))
    \/ SearchExhausted
    \/ \E t \in NextTimesAny, lo \in Prices : \E hi \in lo..MaxPrice : \E cl \in lo..hi :
            ManageStep(Candle(t, hi, lo, cl))
    \/ ManageExhausted

SpecBadTime == BadTimeInit /\ [][BadTimeNext]_vars

\* ------------------------------------------------------------ properties
\* The statements below are written from the simulator's contract, with
\* their own reading of "touches", "local hour" and "pips".

ResultKinds ==
    {"full_win", "partial_win", "loss", "breakeven", "expired", "no_entry",
     "no_data"}

\* The local trading hour of a candle: (hour + utc offset) wrapped mod 24.
LocalHour(c) == ((c.time \div 60) + timezone_offset) % 24

PastCutoff(c) == LocalHour(c) >= kill_zone_end_hour

\* Pips from the entry price to price p in the trade's direction (2 x).
SignedPips(p) ==
    IF bias = "long" THEN 2 * p - (entry_min + entry_max)
    ELSE (entry_min + entry_max) - 2 * p

\* C1: a returned record has one of the seven result kinds, never "pending".
C1_ResultKind == pc = "done" => result.outcome \in ResultKinds

C1_Witness ==
    /\ pc = "done"
    /\ result.outcome = "breakeven"

\* C2: a post-entry candle before the cutoff that touches both the stop-loss
\* and TP1 while TP1 is not yet hit closes the trade as a loss, tp1_hit false.
TouchesStopAndTp1(c) ==
    \/ bias = "long" /\ c.low <= stop_loss /\ c.high >= tp1
    \/ bias = "short" /\ c.high >= stop_loss /\ c.low <= tp1

C2_StopPriority ==
    [][ (ManageStep(candle') /\ ~PastCutoff(candle') /\ ~tp1_hit
            /\ TouchesStopAndTp1(candle'))
        => (pc' = "done" /\ result'.outcome = "loss" /\ ~result'.tp1_hit) ]_vars

C2_Witness ==
    /\ pc = "done"
    /\ result.outcome = "loss"
    /\ ~PastCutoff(candle)
    /\ TouchesStopAndTp1(candle)

\* C3: a full_win record has tp1_hit and tp2_hit, its tp1_pips and tp2_pips
\* are the distances of TP1 and TP2 from the entry price, and
\* pnl_pips = tp1_pips * f + tp2_pips * (1 - f), f = tp1_close_pct / 100.
C3_FullWin ==
    (pc = "done" /\ result.outcome = "full_win")
    => /\ result.tp1_hit
       /\ result.tp2_hit
       /\ result.tp1_pips = Abs(SignedPips(result.tp1))
       /\ result.tp2_pips = Abs(SignedPips(result.tp2))
       /\ result.pnl_pips = result.tp1_pips * tp1_close_pct
                            + result.tp2_pips * (PctBase - tp1_close_pct)

C3_Witness ==
    /\ pc = "done"
    /\ result.outcome = "full_win"
    /\ tp1_close_pct # 50
    /\ result.tp1_time < result.tp2_time

\* C4: a loss record has sl_hit, not tp1_hit, and pnl_pips = -sl_pips whatever
\* the distance by which the candle overshot the stop.
C4_Loss ==
    (pc = "done" /\ result.outcome = "loss")
    => /\ result.sl_hit
       /\ ~result.tp1_hit
       /\ result.pnl_pips = -(sl_pips * PnlScale)

C4_Witness ==
    /\ pc = "done"
    /\ result.outcome = "loss"
    /\ bias = "long"
    /\ candle.low < stop_loss
    /\ SignedPips(candle.low) # -(2 * sl_pips)

\* C5: the result is no_data exactly when the candle list is empty, and every
\* call returns.
C5_NoData ==
    /\ pc = "done" => (result.outcome = "no_data" <=> no_candles)
    /\ pc # "done" => ENABLED Next

C5_Witness ==
    /\ pc = "done"
    /\ result.outcome = "no_data"

\* C6: the trade enters on the first candle that is not before search_start,
\* whose local hour is below the cutoff, no earlier searched candle having
\* reached the cutoff, and that touches the zone; entry_time is that candle's
\* timestamp and entry_price the zone midpoint.
Searched(c) == search_start = NoTime \/ c.time >= search_start

TouchesZone(c) ==
    \/ bias = "long" /\ c.low <= entry_max
    \/ bias = "short" /\ c.high >= entry_min

C6_EntryRule ==
    [][ SearchStep(candle')
        => /\ pc' = "manage"
                <=> (Searched(candle') /\ ~PastCutoff(candle')
                        /\ TouchesZone(candle'))
           /\ pc' = "search"
                <=> (~Searched(candle')
                        \/ (~PastCutoff(candle') /\ ~TouchesZone(candle')))
           /\ pc' = "manage"
                => /\ result'.entry_time = candle'.time
                   /\ result'.entry_price = entry_min + entry_max
           /\ pc' = "search" => result'.entry_time = NoTime ]_vars

C6_Witness ==
    /\ pc = "manage"
    /\ search_start # NoTime
    /\ result.entry_time = search_start
    /\ result.entry_time = candle.time
    /\ entry_min < entry_max
    /\ bias = "long"
    /\ candle.high < entry_min

\* C7: the working stop is the original stop_loss on every candle up to and
\* including the one that hits TP1 and the entry price on every later one; so
\* after TP1 a candle before the cutoff that reaches the entry price closes the
\* trade by stop, the original stop_loss touched or not.
ReachesStopAt(c, level2) ==
    \/ bias = "long" /\ 2 * c.low <= level2
    \/ bias = "short" /\ 2 * c.high >= level2

C7_BreakevenStop ==
    [][ (ManageStep(candle') /\ ~PastCutoff(candle'))
        => /\ ~tp1_hit => (result'.sl_hit
                            <=> ReachesStopAt(candle', 2 * stop_loss))
           /\ tp1_hit => (result'.sl_hit
                            <=> ReachesStopAt(candle', entry_min + entry_max))
           /\ result'.sl_hit => pc' = "done" ]_vars

C7_Witness ==
    /\ pc = "done"
    /\ result.sl_hit
    /\ result.tp1_hit
    /\ ~ReachesStopAt(candle, 2 * stop_loss)

\* C8: a stop triggered after TP1 was hit on an earlier candle gives
\* partial_win with sl_hit and pnl_pips = tp1_pips * f, the runner adding 0.
C8_StopAfterTp1 ==
    [][ (ManageStep(candle') /\ tp1_hit /\ result'.sl_hit)
        => /\ result'.outcome = "partial_win"
           /\ result'.pnl_pips = Abs(SignedPips(tp1)) * tp1_close_pct
           /\ result'.pnl_pips = result'.tp1_pips * tp1_close_pct ]_vars

C8_Witness ==
    /\ pc = "done"
    /\ result.sl_hit
    /\ result.tp1_hit
    /\ result.tp1_time < result.sl_time
    /\ result.outcome = "partial_win"

\* C9: an open position that already hit TP1 and reaches a candle at or past
\* the cutoff gets pnl_pips = tp1_pips * f + remaining_pips * (1 - f), with
\* remaining_pips the signed pips from entry to the candle's close; the outcome
\* is partial_win when pnl_pips > 0 and breakeven otherwise, expired set.
C9_CutoffAfterTp1 ==
    [][ (ManageStep(candle') /\ tp1_hit /\ PastCutoff(candle'))
        => /\ pc' = "done"
           /\ result'.expired
           /\ result'.pnl_pips
                = result'.tp1_pips * tp1_close_pct
                  + SignedPips(candle'.close) * (PctBase - tp1_close_pct)
           /\ result'.outcome
                = IF result'.pnl_pips > 0 THEN "partial_win" ELSE "breakeven" ]_vars

C9_Witness ==
    /\ pc = "done"
    /\ result.expired
    /\ result.tp1_hit
    /\ PastCutoff(candle)
    /\ result.outcome = "breakeven"
    /\ tp1_close_pct # 50

\* C10: an open position without TP1 that reaches a candle at or past the
\* cutoff is closed at that candle's close: outcome expired, expired set,
\* pnl_pips the signed pips from entry to close, and no hit flag set even when
\* the candle's high and low reach the stop, TP1 or TP2.
C10_CutoffFirst ==
    [][ (ManageStep(candle') /\ ~tp1_hit /\ PastCutoff(candle'))
        => /\ pc' = "done"
           /\ result'.outcome = "expired"
           /\ result'.expired
           /\ result'.pnl_pips = SignedPips(candle'.close) * PctBase
           /\ ~result'.sl_hit
           /\ ~result'.tp1_hit
           /\ ~result'.tp2_hit ]_vars

C10_Witness ==
    /\ pc = "done"
    /\ result.outcome = "expired"
    /\ result.entry_time # NoTime
    /\ PastCutoff(candle)
    /\ ReachesStopAt(candle, 2 * stop_loss)
    /\ SignedPips(candle.high) >= Abs(SignedPips(tp2))
    /\ SignedPips(candle.close) < 0

\* C11: a searched candle at or past the cutoff before any entry ends the
\* call with outcome expired and no entry field populated: entry_time and
\* entry_price at their defaults (empty, 0), pnl_pips 0, no hit flag set.
C11_PreEntryExpiry ==
    [][ (SearchStep(candle') /\ Searched(candle') /\ PastCutoff(candle'))
        => /\ pc' = "done"
           /\ result'.outcome = "expired"
           /\ result'.entry_time = NoTime
           /\ result'.entry_price = 0
           /\ result'.pnl_pips = 0
           /\ ~result'.sl_hit
           /\ ~result'.tp1_hit
           /\ ~result'.tp2_hit ]_vars

\* C12: a list that is not empty and ends with no entry, no searched candle
\* having reached the cutoff, returns no_entry with expired set and pnl_pips 0,
\* also when every candle lies before search_start.
C12_NoEntry ==
    (pc = "done" /\ ~no_candles /\ result.entry_time = NoTime
        /\ ~(Searched(candle) /\ PastCutoff(candle)))
    => /\ result.outcome = "no_entry"
       /\ result.expired
       /\ result.pnl_pips = 0

C12_Witness ==
    /\ pc = "done"
    /\ result.outcome = "no_entry"
    /\ ~Searched(candle)
    /\ TouchesZone(candle)

\* C13: a trade that entered and whose list ends with no stop, no TP2 and no
\* cutoff is expired with expired set, its duration running from entry_time
\* to the last candle's timestamp.
C13_Exhausted ==
    (pc = "done" /\ result.entry_time # NoTime /\ ~result.sl_hit
        /\ ~result.tp2_hit /\ ~PastCutoff(candle))
    => /\ result.outcome = "expired"
       /\ result.expired
       /\ result.duration_minutes = candle.time - result.entry_time

C13_Witness ==
    /\ pc = "done"
    /\ result.outcome = "expired"
    /\ result.tp1_hit
    /\ ~PastCutoff(candle)
    /\ candle.time > result.entry_time

\* ------------------------------------------------ properties of the batch
\* The statements below are written from the batch runner's contract; dates
\* and counts are read off the rows and results, sums and maxima are taken
\* over index sets.

RunStates == {"loop", "done", "raised"}

\* The dates of the setups the run has read so far.
DatesOfSetups ==
    {trade_rows[k].trade_date : k \in DOMAIN trade_rows}
        \cup (IF setup = NoSetup THEN {} ELSE {setup.date})

\* C15: within one run the provider is called exactly once for every date
\* that occurs among the setups, however many setups share the date, however
\* the dates interleave, and whether or not the date has candles.
C15_OneFetchPerDate ==
    bpc \in RunStates
    => \A d \in Dates : fetches[d] = IF d \in DatesOfSetups THEN 1 ELSE 0

C15_Witness ==
    /\ bpc = "done"
    /\ Len(trade_rows) = 3
    /\ trade_rows[1].trade_date = trade_rows[3].trade_date
    /\ trade_rows[2].trade_date # trade_rows[1].trade_date
    /\ ~has_bars[trade_rows[1].trade_date]

\* C16: a setup whose date has no candles gets outcome no_data without a call
\* of the simulator, and the run goes on to the next setup; test_setup returns
\* no_data without simulating as well.
C16_NoDataShortCircuit ==
    /\ bpc \in RunStates
        => /\ \A k \in DOMAIN results :
                ~has_bars[trade_rows[k].trade_date]
                    => results[k].outcome = "no_data"
           /\ sim_calls = Cardinality({k \in DOMAIN results :
                                            has_bars[trade_rows[k].trade_date]})
           /\ bpc = "raised" => setup.malformed
    /\ (bpc = "tested" /\ ~has_bars[setup.date])
        => (ts_result.outcome = "no_data" /\ sim_calls = 0)

C16_Witness ==
    /\ bpc = "done"
    /\ Len(results) = 3
    /\ ~has_bars[trade_rows[2].trade_date]
    /\ results[2].outcome = "no_data"
    /\ results[3].outcome = "full_win"

\* C17: a setup whose processing fails gets a no_data-like sentinel outcome
\* and the run goes on: it does not end by the failure.
C17_FailureIsolation ==
    (bpc \in RunStates /\ setup # NoSetup /\ setup.malformed)
    => /\ bpc # "raised"
       /\ Len(results) > 0
       /\ results[Len(results)].outcome = "no_data"

\* C18: the order in which the outcomes are folded for max_drawdown is
\* chronological, by trade date and then entry time: the order in which
\* get_backtest_trades reports the run's trades.
IsTraded(x) == x.outcome \notin {"no_data", "no_entry"}

RowKeys(rows) ==
    [k \in 1..Len(rows) |-> <<rows[k].trade_date, rows[k].entry_time>>]

C18_ChronologicalFold ==
    bpc = "done"
    => RowKeys(SelectSeq(trade_rows, IsTraded))
        = RowKeys(SelectSeq(get_backtest_trades, IsTraded))

\* v is the integer nearest to n / d, the even one at a tie.
Nearest(v, n, d) ==
    LET e == Abs(v * d - n)
    IN  /\ 2 * e <= d
        /\ 2 * e = d => v % 2 = 0

SetMax(S) == CHOOSE x \in S : \A y \in S : y <= x

TradedSteps == {k \in DOMAIN results : IsTraded(results[k])}

\* The cumulative pnl after step k of the results (PnlScale x); 0 at k = 0.
Cum(k) == SumSeq([j \in 1..k |-> IF j \in TradedSteps THEN results[j].pnl_pips ELSE 0])

\* The largest drawdown when the running peak at step k is the largest
\* cumulative pnl of the steps first..k.
MaxDrawdownFrom(first) ==
    SetMax({0} \cup
           { SetMax({Cum(j) : j \in (first..k) \cap ({0} \cup TradedSteps)}) - Cum(k) :
                k \in TradedSteps })

\* C19 as stated: max_drawdown is the maximum over the traded outcomes in
\* fold order of (running peak - cumulative pnl), the running peak at a step
\* being the largest cumulative pnl at or before that step.
C19_MaxDrawdownStated ==
    bpc = "done"
    => summary.max_drawdown_pips * PnlScale = MaxDrawdownFrom(1) * 10

\* C19 amended: the running peak is the largest of 0 and the cumulative pnl
\* at or before the step, and the summary reports the maximum rounded to one
\* decimal.
C19_MaxDrawdown ==
    bpc = "done"
    => /\ max_dd(results) = MaxDrawdownFrom(0)
       /\ Nearest(summary.max_drawdown_pips, MaxDrawdownFrom(0) * 10, PnlScale)

C19_Witness ==
    /\ bpc = "done"
    /\ MaxDrawdownFrom(1) # MaxDrawdownFrom(0)
    /\ MaxDrawdownFrom(1) > 0
    /\ summary.max_drawdown_pips * PnlScale # MaxDrawdownFrom(0) * 10

TradedCount == Cardinality(TradedSteps)

WinnerCount ==
    Cardinality({k \in DOMAIN results :
                    results[k].outcome \in {"full_win", "partial_win"}})

\* C20 as stated: win_rate is (full wins + partial wins) / traded_count * 100,
\* and 0 when nothing traded.
C20_WinRateStated ==
    bpc = "done"
    => IF TradedCount = 0 THEN summary.win_rate = 0
       ELSE summary.win_rate * TradedCount = WinnerCount * 100 * 10

\* C20 amended: the summary reports that quotient rounded to one decimal.
C20_WinRate ==
    bpc = "done"
    => IF TradedCount = 0
       THEN win_rate(results)[1] = 0 /\ summary.win_rate = 0
       ELSE /\ win_rate(results)[1] * TradedCount
                = WinnerCount * 100 * win_rate(results)[2]
            /\ Nearest(summary.win_rate, WinnerCount * 100 * 10, TradedCount)

C20_Witness ==
    /\ bpc = "done"
    /\ TradedCount = 3
    /\ WinnerCount = 2
    /\ summary.partial_wins = 1

\* The sum of weight(k) over the traded steps that satisfy keep(k).
SumOver(keep(_), weight(_)) ==
    SumSeq([k \in 1..Len(results) |->
                IF k \in TradedSteps /\ keep(k) THEN weight(k) ELSE 0])

PnlAt(k) == results[k].pnl_pips

GrossProfitOf == SumOver(LAMBDA k : PnlAt(k) > 0, PnlAt)

GrossLossOf == Abs(SumOver(LAMBDA k : PnlAt(k) < 0, PnlAt))

\* C21 as stated: profit_factor is gross_profit / gross_loss when
\* gross_loss > 0, infinite when gross_loss = 0 < gross_profit, 0 when both
\* are 0.
C21_ProfitFactorStated ==
    bpc = "done"
    => IF GrossLossOf > 0
       THEN summary.profit_factor * GrossLossOf = GrossProfitOf * 100
       ELSE summary.profit_factor = IF GrossProfitOf > 0 THEN Inf ELSE 0

\* C21 amended: with losses the summary reports the quotient rounded to two
\* decimals.
C21_ProfitFactor ==
    bpc = "done"
    => IF GrossLossOf > 0
       THEN Nearest(summary.profit_factor, GrossProfitOf * 100, GrossLossOf)
       ELSE summary.profit_factor = IF GrossProfitOf > 0 THEN Inf ELSE 0

C21_Witness ==
    /\ bpc = "done"
    /\ GrossLossOf > 0
    /\ GrossProfitOf > 0
    /\ summary.profit_factor * GrossLossOf # GrossProfitOf * 100
    /\ summary.no_entry > 0

\* The traded steps with pnl_pips other than 0 and sl_pips above 0.
RrSteps == {k \in TradedSteps : PnlAt(k) # 0 /\ results[k].sl_pips > 0}

\* Every sl_pips of RrSteps divides SlCommon.
SlCommon ==
    ProdSeq([k \in 1..Len(results) |->
                IF k \in RrSteps THEN results[k].sl_pips ELSE 1])

\* The sum of pnl_pips / sl_pips over RrSteps, times PnlScale * SlCommon.
RrSum ==
    SumOver(LAMBDA k : k \in RrSteps,
            LAMBDA k : PnlAt(k) * (SlCommon \div results[k].sl_pips))

TradeList == get_backtest_trades

EnteredList == SelectSeq(TradeList, IsTraded)

Breakdowns ==
    {report.by_checklist_score, report.by_confidence, report.by_bias,
     report.by_day_of_week}

ZeroValued(stats) ==
    /\ stats.count = 0
    /\ stats.wins = 0
    /\ stats.losses = 0
    /\ stats.win_rate = 0
    /\ stats.total_pnl = 0
    /\ stats.avg_pnl = 0
    /\ stats.profit_factor = 0

\* C23: a report over no entered outcome (an empty list, or only no_entry and
\* no_data rows) is produced without error: no cohort with a value other than
\* zero, the stats of the empty cohort zero-valued, an empty equity curve,
\* zero streaks and an overview of zero trades.
C23_EmptyReport ==
    /\ (bpc \in {"idle", "done"} /\ EnteredList = <<>>)
        => ENABLED (\E now \in Clock : GenerateReport(now))
    /\ (bpc = "reported" /\ EnteredList = <<>>)
        => /\ \A b \in Breakdowns : \A c \in DOMAIN b : ZeroValued(b[c])
           /\ ZeroValued(_compute_group_stats(Entered(TradeList)))
           /\ report.equity_curve = <<>>
           /\ report.streaks.max_win_streak = 0
           /\ report.streaks.max_loss_streak = 0
           /\ report.streaks.current_streak = 0
           /\ report.overview.total_trades = 0

C23_Witness ==
    /\ bpc = "reported"
    /\ Len(TradeList) = 3
    /\ EnteredList = <<>>
    /\ \E k \in DOMAIN TradeList : TradeList[k].outcome = "no_entry"
    /\ \E k \in DOMAIN TradeList : TradeList[k].outcome = "no_data"

\* C24: a report generated again from the same run record and trade list is
\* identical to the one before, whatever the time of the call.
C24_Regenerable ==
    [][ (bpc = "reported" /\ bpc' = "reported") => report' = report ]_vars

\* The wins and losses of the entered outcomes, in order.
Decisive ==
    SelectSeq(EnteredList,
              LAMBDA t : t.outcome \in {"full_win", "partial_win", "loss"})

KindAt(k) == IF Decisive[k].outcome = "loss" THEN "loss" ELSE "win"

\* The longest block of one kind among the wins and losses.
LongestRun(kind) ==
    SetMax({0} \cup
           UNION { { j - i + 1 : j \in { m \in DOMAIN Decisive :
                                           /\ m >= i
                                           /\ \A x \in i..m : KindAt(x) = kind } }
                   : i \in DOMAIN Decisive })

\* The block of one kind that ends the wins and losses.
TrailingRun ==
    IF Decisive = <<>> THEN 0
    ELSE SetMax({ n \in 1..Len(Decisive) :
                    \A x \in (Len(Decisive) - n + 1)..Len(Decisive) :
                        KindAt(x) = KindAt(Len(Decisive)) })

\* C25: the streaks are those of the wins and losses alone: a win extends or
\* starts a win streak, a loss a loss streak, and any other outcome
\* (breakeven, expired) changes neither the running streak nor the maxima.
C25_Streaks ==
    bpc = "reported"
        => /\ report.streaks.max_win_streak = LongestRun("win")
           /\ report.streaks.max_loss_streak = LongestRun("loss")
           /\ report.streaks.current_streak = TrailingRun
           /\ report.streaks.current_type =
                  IF Decisive = <<>> THEN "" ELSE KindAt(Len(Decisive))

C25_Witness ==
    /\ bpc = "reported"
    /\ Len(EnteredList) = 3
    /\ EnteredList[1].outcome = "full_win"
    /\ EnteredList[2].outcome \in {"breakeven", "expired"}
    /\ EnteredList[3].outcome = "full_win"
    /\ report.streaks.max_win_streak = 2
    /\ report.streaks.current_streak = 2

\* The sum of pnl_pips of the first k entered outcomes (PnlScale x).
EnteredSum(k) == SumSeq([j \in 1..k |-> EnteredList[j].pnl_pips])

\* One point per entered outcome, in the order of the trade list.
PointPerOutcome ==
    /\ Len(report.equity_curve) = Len(EnteredList)
    /\ \A k \in DOMAIN EnteredList :
          /\ report.equity_curve[k].date = EnteredList[k].trade_date
          /\ report.equity_curve[k].time = EnteredList[k].entry_time
          /\ report.equity_curve[k].outcome = EnteredList[k].outcome

\* C26 as stated: the equity curve has one point per entered outcome, in
\* order, and each point's cumulative value is the sum of pnl_pips up to and
\* including that outcome.
C26_EquityCurveStated ==
    bpc = "reported"
        => /\ PointPerOutcome
           /\ \A k \in DOMAIN EnteredList :
                 report.equity_curve[k].cumulative * PnlScale = EnteredSum(k) * 10

\* C26, amended: the equity curve has one point per entered outcome, in
\* order, and each point's cumulative value is the sum of pnl_pips up to and
\* including that outcome, rounded to one decimal; the last point's is the
\* total pnl of the entered outcomes rounded to one decimal.
C26_EquityCurve ==
    bpc = "reported"
        => /\ PointPerOutcome
           /\ \A k \in DOMAIN EnteredList :
                 Nearest(report.equity_curve[k].cumulative, EnteredSum(k) * 10,
                         PnlScale)

C26_Witness ==
    /\ bpc = "reported"
    /\ Len(TradeList) > Len(EnteredList)
    /\ Len(EnteredList) = 2
    /\ EnteredList[1].pnl_pips # 0
    /\ report.equity_curve[2].cumulative * PnlScale # EnteredSum(2) * 10

\* The cohorts that hold every entered outcome of the run: the one cohort of
\* each breakdown that has a single cohort.
SingleCohorts ==
    UNION { {b[c] : c \in DOMAIN b} :
              b \in {x \in Breakdowns : Cardinality(DOMAIN x) = 1} }

\* C27: when every entered outcome of a run falls into one cohort of a
\* breakdown, the cohort's count, win_rate, total_pnl and profit_factor are
\* the run summary's total_trades, win_rate, total_pnl_pips and
\* profit_factor, an infinite profit factor being infinite in both.
C27_CohortIsSummary ==
    bpc = "reported"
        => \A st \in SingleCohorts :
              /\ st.count = summary.total_trades
              /\ st.win_rate = summary.win_rate
              /\ st.total_pnl = summary.total_pnl_pips
              /\ st.profit_factor = InfText <=> summary.profit_factor = Inf
              /\ st.profit_factor # InfText
                    => st.profit_factor = summary.profit_factor

C27_Witness ==
    /\ bpc = "reported"
    /\ Cardinality(DOMAIN report.by_day_of_week) = 1
    /\ summary.total_trades = 2
    /\ summary.no_entry > 0
    /\ summary.breakevens > 0
    /\ summary.profit_factor \notin {0, Inf}

\* The first entered outcome whose key is the largest.
FirstLargest(key(_)) ==
    CHOOSE k \in DOMAIN EnteredList :
        /\ \A j \in DOMAIN EnteredList : key(EnteredList[j]) <= key(EnteredList[k])
        /\ \A j \in 1..(k - 1) : key(EnteredList[j]) < key(EnteredList[k])

ReportedOf(t) ==
    [date |-> t.trade_date, outcome |-> t.outcome, pnl_pips |-> t.pnl_pips]

\* C28: best_trade is the first entered outcome of the trade list with the
\* maximum pnl_pips, worst_trade the first with the minimum pnl_pips.
C28_NotableTrades ==
    (bpc = "reported" /\ EnteredList # <<>>)
        => /\ report.best_trade
                = ReportedOf(EnteredList[FirstLargest(LAMBDA t : t.pnl_pips)])
           /\ report.worst_trade
                = ReportedOf(EnteredList[FirstLargest(LAMBDA t : -t.pnl_pips)])

C28_Witness ==
    /\ bpc = "reported"
    /\ Len(EnteredList) = 3
    /\ EnteredList[1].pnl_pips < EnteredList[2].pnl_pips
    /\ EnteredList[2].pnl_pips = EnteredList[3].pnl_pips
    /\ EnteredList[2].trade_date # EnteredList[3].trade_date
    /\ report.best_trade.date = EnteredList[2].trade_date

\* C29: the local hour of a bar is (bar hour + offset) wrapped modulo 24 and
\* lies in 0..23, for every bar hour in 0..23 and every offset in -23..23.
C29_WrappedHour ==
    (hpc = "done" /\ hour_time \notin BadTimes)
        => /\ hour_result = ((hour_time \div 60) + hour_offset) % 24
           /\ hour_result \in 0..23

\* C30: a bar whose timestamp does not parse is read as local hour 0: under
\* a cutoff above 0 it never expires the search or the position, and the
\* entry, stop and target tests are made on it.
C30_BadTimestamp ==
    [][ /\ (/\ SearchStep(candle')
            /\ candle'.time \in BadTimes
            /\ kill_zone_end_hour > 0
            /\ ~(search_start # NoTime /\ candle'.time < search_start))
           => /\ _get_mez_hour(candle'.time, timezone_offset) = 0
              /\ ~result'.expired
              /\ result'.outcome = "pending"
              /\ pc' = IF TouchesZone(candle') THEN "manage" ELSE "search"
              /\ TouchesZone(candle') => result'.entry_time = candle'.time
        /\ (/\ ManageStep(candle')
            /\ candle'.time \in BadTimes
            /\ kill_zone_end_hour > 0)
           => /\ ~result'.expired
              /\ result'.outcome # "expired"
              /\ StopTouched(candle', current_sl)
                    => result'.sl_hit /\ result'.sl_time = candle'.time
              /\ (~StopTouched(candle', current_sl) /\ Tp1Touched(candle'))
                    => result'.tp1_hit
              /\ (~StopTouched(candle', current_sl) /\ Tp2Touched(candle'))
                    => result'.outcome = "full_win"
      ]_vars

C30_Witness ==
    /\ pc = "done"
    /\ kill_zone_end_hour = 1
    /\ result.entry_time \in BadTimes
    /\ result.tp2_time \in BadTimes
    /\ result.outcome = "full_win"

\* ----------------------------------------------------- contract and safety
\* C31: a trade whose sl_pips is <= 0 raises an error where it reaches the
\* summary statistics: no run that returns its summary holds a traded result
\* with sl_pips <= 0.
C31_StopDistanceChecked ==
    bpc = "done"
        => \A k \in DOMAIN results :
              IsTraded(results[k]) => results[k].sl_pips > 0

\* C32: once TP1 has been hit the trade carries no further downside: every
\* result of a well-formed trade with tp1_hit set has pnl_pips >= 0.
C32_NoDownsideAfterTp1 ==
    (pc = "done" /\ result.tp1_hit) => result.pnl_pips >= 0

\* C33: a trade that banked TP1 is never reported as a non-win: tp1_hit set
\* implies an outcome of full_win, partial_win or breakeven, also when the
\* list ends after TP1 with no stop, no TP2 and no cutoff.
C33_Tp1NeverNonWin ==
    (pc = "done" /\ result.tp1_hit)
        => result.outcome \in {"full_win", "partial_win", "breakeven"}

\* C34: every result the run summary counts in total_trades, and every one
\* the report takes as entered, has an entry_time: a setup that expired at
\* the cutoff before any entry is not counted as a trade.
C34_CountedEntered ==
    (pc = "done"
        /\ (Traded(<<result>>) # <<>> \/ Entered(<<result>>) # <<>>))
        => result.entry_time # NoTime

ReachesTarget(c, level) ==
    \/ bias = "long" /\ c.high >= level
    \/ bias = "short" /\ c.low <= level

\* C35: with TP1 not hit yet, a candle before the cutoff that reaches TP1 and
\* TP2 and does not touch the working stop ends the trade on that candle as
\* full_win with tp1_time = tp2_time; TP2 is never credited without TP1.
C35_BothTargetsOneBar ==
    [][ ManageStep(candle')
        => /\ (/\ ~tp1_hit
               /\ ~PastCutoff(candle')
               /\ ReachesTarget(candle', tp1)
               /\ ReachesTarget(candle', tp2)
               /\ ~ReachesStopAt(candle', 2 * stop_loss))
              => /\ pc' = "done"
                 /\ result'.outcome = "full_win"
                 /\ result'.tp1_hit
                 /\ result'.tp2_hit
                 /\ result'.tp1_time = candle'.time
                 /\ result'.tp2_time = candle'.time
           /\ result'.tp2_hit => result'.tp1_hit ]_vars

C35_Witness ==
    /\ pc = "done"
    /\ result.outcome = "full_win"
    /\ result.tp1_time = result.tp2_time
    /\ result.tp2_time = candle.time
    /\ result.entry_time < candle.time

\* C36: position management starts at the candle after the entry candle:
\* the step that enters leaves no hit flag set, pnl_pips 0, both excursion
\* maxima 0 and the working stop at stop_loss, whatever the entry candle's
\* high, low and close; the trade is still open after it.
C36_EntryBarNotManaged ==
    [][ (SearchStep(candle') /\ pc' = "manage")
        => /\ result' = [result EXCEPT !.entry_time = candle'.time]
           /\ result'.outcome = "pending"
           /\ ~result'.sl_hit /\ ~result'.tp1_hit /\ ~result'.tp2_hit
           /\ result'.pnl_pips = 0
           /\ ~sl_hit' /\ ~tp1_hit' /\ ~tp2_hit'
           /\ max_adverse' = 0
           /\ max_favorable' = 0
           /\ current_sl' = 2 * stop_loss ]_vars

C36_Witness ==
    /\ pc = "manage"
    /\ candle.time = result.entry_time
    /\ ReachesStopAt(candle, 2 * stop_loss)
    /\ ReachesTarget(candle, tp2)
    /\ candle.close # candle.high
    /\ max_adverse = 0
    /\ result.outcome = "pending"

\* The number of terminal events a result records.
TerminalEvents ==
    (IF result.sl_hit THEN 1 ELSE 0) + (IF result.tp2_hit THEN 1 ELSE 0)
        + (IF result.expired THEN 1 ELSE 0)

\* C37: in every result at most one of sl_hit, tp2_hit and expired is set:
\* exactly one when the trade entered, only expired for no_entry and for an
\* expiry before entry, none for no_data; full_win and loss have expired
\* unset, breakeven, expired and no_entry have it set.
C37_TerminalExclusive ==
    pc = "done"
        => /\ TerminalEvents <= 1
           /\ result.entry_time # NoTime => TerminalEvents = 1
           /\ (result.outcome \in {"no_entry", "expired"}
                    /\ result.entry_time = NoTime)
                 => (result.expired /\ TerminalEvents = 1)
           /\ result.outcome = "no_data" => TerminalEvents = 0
           /\ result.outcome \in {"full_win", "loss"} => ~result.expired
           /\ result.outcome \in {"breakeven", "expired", "no_entry"}
                 => result.expired

C37_Witness ==
    /\ pc = "done"
    /\ result.outcome = "partial_win"
    /\ result.tp1_hit
    /\ result.expired
    /\ ~result.sl_hit
    /\ TerminalEvents = 1

\* C38: the summary's counts partition the results of a run: total_setups =
\* total_trades + no_entry and total_trades = wins + partial_wins + losses
\* + breakevens + expired.
C38_CountsPartition ==
    bpc = "done"
        => /\ summary.total_setups = Len(results)
           /\ summary.total_setups = summary.total_trades + summary.no_entry
           /\ summary.total_trades
                = summary.wins + summary.partial_wins + summary.losses
                  + summary.breakevens + summary.expired

C38_Witness ==
    /\ bpc = "done"
    /\ Len(results) = 3
    /\ summary.no_entry = 1
    /\ summary.breakevens = 1
    /\ summary.expired = 1
    /\ \E k \in DOMAIN results : results[k].outcome = "no_data"

IsSet(t) == t # NoTime

EventTimesOrdered(r) ==
    /\ IsSet(r.tp1_time) => (IsSet(r.entry_time) /\ r.entry_time <= r.tp1_time)
    /\ IsSet(r.tp2_time) => (IsSet(r.tp1_time) /\ r.tp1_time <= r.tp2_time)
    /\ IsSet(r.sl_time) => (IsSet(r.entry_time) /\ r.entry_time <= r.sl_time)
    /\ (IsSet(r.sl_time) /\ IsSet(r.tp1_time)) => r.tp1_time <= r.sl_time
    /\ r.duration_minutes >= 0

\* C39: for candles in timestamp order, entry_time <= tp1_time <= tp2_time
\* and tp1_time <= sl_time wherever the fields are set, each of tp1_time,
\* tp2_time and sl_time is the timestamp of a candle read after the entry
\* candle, and duration_minutes is never negative.
C39_EventOrder ==
    [][ /\ EventTimesOrdered(result')
        /\ (\/ result'.tp1_time # result.tp1_time
            \/ result'.tp2_time # result.tp2_time
            \/ result'.sl_time # result.sl_time)
           => /\ pc = "manage"
              /\ IsSet(result.entry_time)
              /\ ManageStep(candle')
              /\ \A t \in {result'.tp1_time, result'.tp2_time, result'.sl_time}
                        \ {result.tp1_time, result.tp2_time, result.sl_time} :
                    t = candle'.time
        /\ SearchStep(candle')
           => /\ ~IsSet(result'.tp1_time)
              /\ ~IsSet(result'.tp2_time)
              /\ ~IsSet(result'.sl_time) ]_vars

C39_Witness ==
    /\ pc = "done"
    /\ result.sl_hit
    /\ result.entry_time < result.tp1_time
    /\ result.tp1_time <= result.sl_time
    /\ result.duration_minutes > 0

\* C40: the excursion maxima are never negative; for a well-formed trade a
\* full_win has max_favorable_pips >= tp2_pips, a result with tp1_hit has
\* max_favorable_pips >= tp1_pips, and a loss has max_adverse_pips >= the
\* pips from the entry price to stop_loss.
C40_ExcursionsConsistent ==
    pc = "done"
        => /\ result.max_adverse_pips >= 0
           /\ result.max_favorable_pips >= 0
           /\ result.outcome = "full_win"
                 => /\ result.max_favorable_pips >= result.tp2_pips
                    /\ result.max_favorable_pips >= Abs(SignedPips(tp2))
           /\ result.tp1_hit
                 => /\ result.max_favorable_pips >= result.tp1_pips
                    /\ result.max_favorable_pips >= Abs(SignedPips(tp1))
           /\ result.outcome = "loss"
                 => result.max_adverse_pips >= Abs(SignedPips(stop_loss))

C40_Witness ==
    /\ pc = "done"
    /\ result.outcome = "loss"
    /\ result.max_adverse_pips > Abs(SignedPips(stop_loss))
    /\ result.max_favorable_pips > 0
    /\ candle.close # candle.high

====
